---- MODULE Spec2Model ----
(***************************************************************************)
(* A model of dts-generator (src/index.ts): the text-preserving tree       *)
(* rewriter processTree, the module identifier computation, and the run    *)
(* of generate against its output stream and its promise.                  *)
(*                                                                         *)
(* Strings are TLA+ strings; positions are 0-based as in JavaScript.       *)
(***************************************************************************)
EXTENDS Integers, Sequences, FiniteSets, TLC

VARIABLES
    tTree,      \* processTree: the syntax tree handed in (a SourceFile node)
    tResult,    \* processTree: <<>> before the call, <<walk result>> after it
    opts,       \* generate: the options object
    sourceFiles,\* generate: program.getSourceFiles(), in the frontend's order
    pc,         \* generate: position in the executor / event loop
    idx,        \* generate: index of the next source file the some() loop visits
    log,        \* output.write calls so far, in order
    messages,   \* sendMessage calls so far, in order
    stream,     \* the output stream: end() calls, 'close' and 'error' events
    promise,    \* the promise generate returns
    hist        \* history of the run (what was true when a fatal diagnostic hit)

treeVars == <<tTree, tResult>>
genVars == <<opts, sourceFiles, pc, idx, log, messages, stream, promise, hist>>
vars == <<tTree, tResult, opts, sourceFiles, pc, idx, log, messages, stream, promise, hist>>

(***************************************************************************)
(* JavaScript string primitives                                            *)
(***************************************************************************)
Min(a, b) == IF a < b THEN a ELSE b
Max(a, b) == IF a > b THEN a ELSE b

\* String.prototype.slice's index rule: negative counts from the end, clamped
sliceIndex(s, i) == IF i < 0 THEN Max(Len(s) + i, 0) ELSE Min(i, Len(s))

\* s.slice(from, to)
slice(s, from, to) ==
    LET f == sliceIndex(s, from)
        t == sliceIndex(s, to)
    IN IF t <= f THEN "" ELSE SubSeq(s, f + 1, t)

\* s.slice(from)
sliceFrom(s, from) == slice(s, from, Len(s))

\* s.charAt(i)
charAt(s, i) == IF i >= 0 /\ i < Len(s) THEN SubSeq(s, i + 1, i + 1) ELSE ""

\* s.indexOf(p) === 0
indexOfIsZero(s, p) == Len(p) <= Len(s) /\ SubSeq(s, 1, Len(p)) = p

(***************************************************************************)
(* Node's path module, POSIX flavour, as generate uses it                  *)
(***************************************************************************)
\* pathUtil.sep on the host the model describes
Sep == "/"

\* the positions i >= from where s holds p
occurrences(s, p, from) ==
    { i \in from..(Len(s) - Len(p)) : SubSeq(s, i + 1, i + Len(p)) = p }

\* the least member of a non-empty set of numbers
least(S) == CHOOSE i \in S : \A j \in S : i <= j

\* s.split(sep), sep not empty
split(s, sep) ==
    LET RECURSIVE from(_)
        from(i) ==
            LET at == occurrences(s, sep, i)
            IN IF at = {} THEN <<sliceFrom(s, i)>>
               ELSE <<slice(s, i, least(at))>> \o from(least(at) + Len(sep))
    IN from(0)

\* parts.join(sep)
RECURSIVE joinWith(_, _)
joinWith(parts, sep) ==
    IF parts = <<>> THEN ""
    ELSE IF Len(parts) = 1 THEN parts[1]
    ELSE parts[1] \o sep \o joinWith(Tail(parts), sep)

\* parts.filter(p => !!p)
RECURSIVE nonEmpty(_)
nonEmpty(parts) ==
    IF parts = <<>> THEN <<>>
    ELSE IF Head(parts) = "" THEN nonEmpty(Tail(parts))
    ELSE <<Head(parts)>> \o nonEmpty(Tail(parts))

\* path.js normalizeArray: scans from the last part, '..' eats the part before it
normalizeArray(parts, allowAboveRoot) ==
    LET RECURSIVE back(_, _, _)
        \* i: parts still to scan; up: pending '..'; kept: the parts kept so far
        back(i, up, kept) ==
            IF i = 0
            THEN IF allowAboveRoot
                 THEN [k \in 1..up |-> ".."] \o kept
                 ELSE kept
            ELSE IF parts[i] = "." THEN back(i - 1, up, kept)
            ELSE IF parts[i] = ".." THEN back(i - 1, up + 1, kept)
            ELSE IF up > 0 THEN back(i - 1, up - 1, kept)
            ELSE back(i - 1, up, <<parts[i]>> \o kept)
    IN back(Len(parts), 0, <<>>)

\* pathUtil.normalize(path)
normalize(path) ==
    LET isAbsolute == charAt(path, 0) = "/"
        trailingSlash == Len(path) > 0 /\ charAt(path, Len(path) - 1) = "/"
        body == joinWith(normalizeArray(nonEmpty(split(path, "/")), ~isAbsolute), "/")
        body1 == IF body = "" /\ ~isAbsolute THEN "." ELSE body
        body2 == IF body1 # "" /\ trailingSlash THEN body1 \o "/" ELSE body1
    IN (IF isAbsolute THEN "/" ELSE "") \o body2

\* pathUtil.join(a, b)
join(a, b) == normalize(joinWith(nonEmpty(<<a, b>>), "/"))

\* pathUtil.dirname(path)
dirname(path) ==
    LET parts == split(path, "/")
        RECURSIVE dropTrailing(_)
        dropTrailing(ps) ==
            IF Len(ps) > 1 /\ ps[Len(ps)] = "" THEN dropTrailing(SubSeq(ps, 1, Len(ps) - 1))
            ELSE ps
        ps == dropTrailing(parts)
        dir == joinWith(SubSeq(ps, 1, Len(ps) - 1), "/")
    IN IF Len(ps) = 1 THEN (IF charAt(path, 0) = "/" THEN "/" ELSE ".")
       ELSE IF dir = "" THEN "/"
       ELSE dir

\* process.cwd() on the host the model describes
Cwd == "/w"

\* pathUtil.resolve(from, to): the rightmost absolute argument wins
resolve2(from, to) ==
    LET base == IF charAt(from, 0) = "/" THEN from ELSE Cwd \o "/" \o from
        whole == IF charAt(to, 0) = "/" THEN to ELSE base \o "/" \o to
    IN "/" \o joinWith(normalizeArray(nonEmpty(split(whole, "/")), FALSE), "/")

\* pathUtil.resolve(path)
resolve(path) == resolve2(Cwd, path)

(***************************************************************************)
(* processTree (src/index.ts 66-97)                                        *)
(*                                                                         *)
(* A node is a record with pos, end, kids (what ts.forEachChild visits, in *)
(* order) and id (its path from the root, unique in a tree).  A replacer   *)
(* is a function from the nodes of the tree to <<>> (null/undefined) or    *)
(* <<replacement>>.  The walk state is [code, cursorPosition, visited];    *)
(* visited records the calls of visit and is not read by the walk.         *)
(***************************************************************************)
\* skip gone wrong: the cursor is left at the start of the replaced node
skipMutantStay(node, st) == [st EXCEPT !.cursorPosition = node.pos]

\* function skip(node)
skip(node, st) == [st EXCEPT !.cursorPosition = node.end]

\* function readThrough(node)
readThrough(sourceFile, node, st) ==
    [st EXCEPT !.code = @ \o slice(sourceFile.text, st.cursorPosition, node.pos),
               !.cursorPosition = node.pos]

\* function visit(node), with ts.forEachChild(node, visit), from visit(sourceFile)
walkTree(sourceFile, replacer) ==
    LET RECURSIVE visit(_, _)
        RECURSIVE forEachChild(_, _)
        visit(node, st0) ==
            LET st == readThrough(sourceFile, node,
                                  [st0 EXCEPT !.visited = Append(@, node.id)])
                replacement == replacer[node]
            IN IF replacement # <<>>
               THEN skip(node, [st EXCEPT !.code = @ \o replacement[1]])
               ELSE forEachChild(node.kids, st)
        forEachChild(kids, st) ==
            IF kids = <<>> THEN st
            ELSE forEachChild(Tail(kids), visit(Head(kids), st))
    IN visit(sourceFile, [code |-> "", cursorPosition |-> 0, visited |-> <<>>])

\* function processTree(sourceFile, replacer): string
processTree(sourceFile, replacer) ==
    LET st == walkTree(sourceFile, replacer)
    IN st.code \o sliceFrom(sourceFile.text, st.cursorPosition)

\* every node of a tree (the domain of a replacer)
RECURSIVE NodesOf(_)
NodesOf(node) ==
    {node} \cup UNION {NodesOf(node.kids[i]) : i \in DOMAIN node.kids}

(***************************************************************************)
(* Inputs of processTree: every well-formed tree over a short source text. *)
(* As the TypeScript parser builds them, a child's span lies within its    *)
(* parent's and siblings follow each other without overlap; a node may be  *)
(* empty (a missing node, the end-of-file token).                          *)
(***************************************************************************)
TextLen == 2
MaxNodes == 4

Alphabet == "abcdefgh"
SourceText == SubSeq(Alphabet, 1, TextLen)

\* what a replacer may answer: nothing, or a replacement text
Answers == {<<>>, <<"#">>}

RECURSIVE TreeSize(_)
TreeSize(node) ==
    LET RECURSIVE sum(_)
        sum(kids) == IF kids = <<>> THEN 0 ELSE TreeSize(Head(kids)) + sum(Tail(kids))
    IN 1 + sum(node.kids)

RECURSIVE Subtrees(_, _, _, _)
RECURSIVE Forests(_, _, _, _, _)
\* the nodes with at most n nodes in all whose span lies in lo..hi
Subtrees(lo, hi, n, id) ==
    UNION { UNION { { [id |-> id, kind |-> "Node", pos |-> p, end |-> e,
                       kids |-> kids, answer |-> a]
                      : kids \in Forests(p, e, n - 1, id, 1), a \in Answers }
                    : e \in p..hi }
            : p \in lo..hi }

\* the sibling lists with at most n nodes in all within lo..hi, numbered from k
Forests(lo, hi, n, parentId, k) ==
    {<<>>} \cup
    IF n = 0 THEN {}
    ELSE UNION { { <<t>> \o f : f \in Forests(t.end, hi, n - TreeSize(t), parentId, k + 1) }
                 : t \in Subtrees(lo, hi, n, Append(parentId, k)) }

\* the SourceFile nodes: the whole text, from position 0
SourceFileTrees ==
    { [id |-> <<>>, kind |-> "SourceFile", pos |-> 0, end |-> Len(SourceText),
       text |-> SourceText, kids |-> kids, answer |-> a]
      : kids \in Forests(0, Len(SourceText), MaxNodes - 1, <<>>, 1), a \in Answers }

\* the replacer of a tree drawn above: each node carries the replacer's answer
AnswerReplacer(tree) == [node \in NodesOf(tree) |-> node.answer]

(***************************************************************************)
(* The specification of processTree alone                                  *)
(***************************************************************************)
GenIdle ==
    /\ opts = <<>> /\ sourceFiles = <<>> /\ pc = "idle" /\ idx = 0
    /\ log = <<>> /\ messages = <<>> /\ stream = <<>> /\ promise = <<>> /\ hist = <<>>

TreeInit ==
    /\ tTree \in SourceFileTrees
    /\ tResult = <<>>
    /\ GenIdle

\* one call processTree(sourceFile, replacer)
CallProcessTree ==
    /\ tResult = <<>>
    /\ LET st == walkTree(tTree, AnswerReplacer(tTree))
       IN tResult' = << [code |-> processTree(tTree, AnswerReplacer(tTree)),
                         visited |-> st.visited] >>
    /\ UNCHANGED <<tTree, genVars>>

TreeNext == CallProcessTree

TreeSpec == TreeInit /\ [][TreeNext]_vars

(***************************************************************************)
(* The compiler frontend (a black box to generate): the declaration texts  *)
(* it parses, and the files its host reads.                                *)
(***************************************************************************)
\* a ts.Node: text is a literal's text (for an ExternalModuleReference, its
\* expression's text; for the SourceFile, the source text)
Nd(id, kind, parentKind, pos, end, text, kids) ==
    [id |-> id, kind |-> kind, parentKind |-> parentKind, pos |-> pos, end |-> end,
     text |-> text, kids |-> kids]

DeclA ==
    Nd(<<>>, "SourceFile", "", 0, 30, "export declare var x: number;\n",
       <<
          Nd(<<1>>, "VariableStatement", "SourceFile", 0, 29, "",
             <<
                Nd(<<1, 1>>, "ExportKeyword", "VariableStatement", 0, 6, "", <<>>),
                Nd(<<1, 2>>, "DeclareKeyword", "VariableStatement", 6, 14, "", <<>>),
                Nd(<<1, 3>>, "VariableDeclarationList", "VariableStatement", 14, 28, "", <<>>) >>),
          Nd(<<2>>, "EndOfFileToken", "SourceFile", 29, 30, "", <<>>) >>)

DeclAd ==
    Nd(<<>>, "SourceFile", "", 0, 30, "export declare var y: string;\n",
       <<
          Nd(<<1>>, "VariableStatement", "SourceFile", 0, 29, "",
             <<
                Nd(<<1, 1>>, "ExportKeyword", "VariableStatement", 0, 6, "", <<>>),
                Nd(<<1, 2>>, "DeclareKeyword", "VariableStatement", 6, 14, "", <<>>),
                Nd(<<1, 3>>, "VariableDeclarationList", "VariableStatement", 14, 28, "", <<>>) >>),
          Nd(<<2>>, "EndOfFileToken", "SourceFile", 29, 30, "", <<>>) >>)

DeclE ==
    Nd(<<>>, "SourceFile", "", 0, 30, "export declare var e: number;\n",
       <<
          Nd(<<1>>, "VariableStatement", "SourceFile", 0, 29, "",
             <<
                Nd(<<1, 1>>, "ExportKeyword", "VariableStatement", 0, 6, "", <<>>),
                Nd(<<1, 2>>, "DeclareKeyword", "VariableStatement", 6, 14, "", <<>>),
                Nd(<<1, 3>>, "VariableDeclarationList", "VariableStatement", 14, 28, "", <<>>) >>),
          Nd(<<2>>, "EndOfFileToken", "SourceFile", 29, 30, "", <<>>) >>)

DeclG ==
    Nd(<<>>, "SourceFile", "", 0, 46, "declare var g: number;\ndeclare var h: string;\n",
       <<
          Nd(<<1>>, "VariableStatement", "SourceFile", 0, 22, "",
             <<
                Nd(<<1, 1>>, "DeclareKeyword", "VariableStatement", 0, 7, "", <<>>),
                Nd(<<1, 2>>, "VariableDeclarationList", "VariableStatement", 7, 21, "", <<>>) >>),
          Nd(<<2>>, "VariableStatement", "SourceFile", 22, 45, "",
             <<
                Nd(<<2, 1>>, "DeclareKeyword", "VariableStatement", 22, 30, "", <<>>),
                Nd(<<2, 2>>, "VariableDeclarationList", "VariableStatement", 30, 44, "", <<>>) >>),
          Nd(<<3>>, "EndOfFileToken", "SourceFile", 45, 46, "", <<>>) >>)

DeclC ==
    Nd(<<>>, "SourceFile", "", 0, 147, "import a = require('./x');\nimport e = require('ext');\nimport { T } from '../t';\nexport * from './u/v';\nexport * from 'q';\nexport declare var c: T;\n",
       <<
          Nd(<<1>>, "ImportEqualsDeclaration", "SourceFile", 0, 26, "",
             <<
                Nd(<<1, 1>>, "Identifier", "ImportEqualsDeclaration", 6, 8, "", <<>>),
                Nd(<<1, 2>>, "ExternalModuleReference", "ImportEqualsDeclaration", 10, 25, "./x",
                   <<
                      Nd(<<1, 2, 1>>, "StringLiteral", "ExternalModuleReference", 19, 24, "./x", <<>>) >>) >>),
          Nd(<<2>>, "ImportEqualsDeclaration", "SourceFile", 26, 53, "",
             <<
                Nd(<<2, 1>>, "Identifier", "ImportEqualsDeclaration", 33, 35, "", <<>>),
                Nd(<<2, 2>>, "ExternalModuleReference", "ImportEqualsDeclaration", 37, 52, "ext",
                   <<
                      Nd(<<2, 2, 1>>, "StringLiteral", "ExternalModuleReference", 46, 51, "ext", <<>>) >>) >>),
          Nd(<<3>>, "ImportDeclaration", "SourceFile", 53, 79, "",
             <<
                Nd(<<3, 1>>, "ImportClause", "ImportDeclaration", 60, 66, "", <<>>),
                Nd(<<3, 2>>, "StringLiteral", "ImportDeclaration", 71, 78, "../t", <<>>) >>),
          Nd(<<4>>, "ExportDeclaration", "SourceFile", 79, 102, "",
             <<
                Nd(<<4, 1>>, "StringLiteral", "ExportDeclaration", 93, 101, "./u/v", <<>>) >>),
          Nd(<<5>>, "ExportDeclaration", "SourceFile", 102, 121, "",
             <<
                Nd(<<5, 1>>, "StringLiteral", "ExportDeclaration", 116, 120, "q", <<>>) >>),
          Nd(<<6>>, "VariableStatement", "SourceFile", 121, 146, "",
             <<
                Nd(<<6, 1>>, "ExportKeyword", "VariableStatement", 121, 128, "", <<>>),
                Nd(<<6, 2>>, "DeclareKeyword", "VariableStatement", 128, 136, "", <<>>),
                Nd(<<6, 3>>, "VariableDeclarationList", "VariableStatement", 136, 145, "", <<>>) >>),
          Nd(<<7>>, "EndOfFileToken", "SourceFile", 146, 147, "", <<>>) >>)

\* the texts the parser is given in a run
ParsedTexts == {DeclA, DeclAd, DeclE, DeclG, DeclC}

\* the parser sets externalModuleIndicator on a top-level import or export
hasExternalModuleIndicator(tree) ==
    \E i \in DOMAIN tree.kids :
        \/ tree.kids[i].kind \in {"ImportEqualsDeclaration", "ImportDeclaration",
                                  "ExportDeclaration"}
        \/ \E j \in DOMAIN tree.kids[i].kids : tree.kids[i].kids[j].kind = "ExportKeyword"

\* ts.createSourceFile(filename, data, target, true)
createSourceFile(filename, data) ==
    LET t == CHOOSE t \in ParsedTexts : t.text = data
    IN [fileName |-> filename, externalModuleIndicator |-> hasExternalModuleIndicator(t),
        id |-> t.id, kind |-> t.kind, parentKind |-> t.parentKind, pos |-> t.pos,
        end |-> t.end, text |-> t.text, kids |-> t.kids]

\* the default library the frontend adds to every program
LibFile == "/lib/lib.d.ts"

\* the host's files: a .d.ts file's text, a .ts file's emitted declaration text
Disk ==
    "/b/a.ts" :> DeclA.text @@ "/b/a.d.ts" :> DeclAd.text @@ "/b/g.d.ts" :> DeclG.text @@
    "/b/s/c.ts" :> DeclC.text @@ "/bx/e.ts" :> DeclE.text @@ LibFile :> DeclG.text

\* the ts.SourceFile the program holds for a file name
programSourceFile(fileName) ==
    IF sliceFrom(fileName, -5) = ".d.ts"
    THEN createSourceFile(fileName, Disk[fileName])
    ELSE [fileName |-> fileName, declaration |-> Disk[fileName]]

\* what program.emit(sourceFile, writeFile) may answer for a source file
EmitOutcomes ==
    { [emitSkipped |-> FALSE, diagnostics |-> 0, written |-> TRUE],
      [emitSkipped |-> FALSE, diagnostics |-> 1, written |-> TRUE],
      [emitSkipped |-> FALSE, diagnostics |-> 1, written |-> FALSE],
      [emitSkipped |-> TRUE, diagnostics |-> 0, written |-> FALSE] }

(***************************************************************************)
(* generate (src/index.ts 99-223)                                          *)
(***************************************************************************)
\* filenameToMid
filenameToMid(filename) ==
    IF Sep = "/" THEN filename
    ELSE joinWith(split(filename, Sep), "/")

\* getFilenames(baseDir, files)
getFilenames(baseDir, files) ==
    [i \in DOMAIN files |->
        LET resolvedFilename == resolve(files[i])
        IN IF indexOfIsZero(resolvedFilename, baseDir) THEN resolvedFilename
           ELSE resolve2(baseDir, files[i])]

\* var baseDir = pathUtil.resolve(options.baseDir)
baseDirOf(o) == resolve(o.baseDir)

\* the keys of excludesMap
excludesMap(o) == { resolve2(baseDirOf(o), o.excludes[i]) : i \in DOMAIN o.excludes }

\* program.getSourceFiles() for createProgram(filenames, ...)
getSourceFiles(o) ==
    LET filenames == getFilenames(baseDirOf(o), o.files)
    IN [i \in DOMAIN filenames |-> programSourceFile(filenames[i])]
       \o <<programSourceFile(LibFile)>>

\* content.replace(nonEmptyLineStart, '$&' + indent), nonEmptyLineStart being
\* new RegExp(eol + '(?!' + eol + '|$)', 'g')
indentLines(content, eol, indent) ==
    LET matches(i) ==
            { j \in occurrences(content, eol, i) :
                /\ ~indexOfIsZero(sliceFrom(content, j + Len(eol)), eol)
                /\ j + Len(eol) < Len(content) }
        RECURSIVE from(_)
        from(i) ==
            IF matches(i) = {} THEN sliceFrom(content, i)
            ELSE LET after == least(matches(i)) + Len(eol)
                 IN slice(content, i, after) \o indent \o from(after)
    IN from(0)

\* options.name + filenameToMid(filename.slice(baseDir.length, -5))
sourceModuleIdOf(filename, o) ==
    o.name \o filenameToMid(slice(filename, Len(baseDirOf(o)), -5))

\* the join gone wrong: from the module identifier itself, not its directory
rewrittenPathMutantNoDirname(sourceModuleId, text) == join(sourceModuleId, text)

\* pathUtil.join(pathUtil.dirname(sourceModuleId), text)
rewrittenPath(sourceModuleId, text) == join(dirname(sourceModuleId), text)

\* the replacer writeDeclaration hands to processTree
replacerOf(declarationFile, sourceModuleId) ==
    [node \in NodesOf(declarationFile) |->
        IF node.kind = "ExternalModuleReference"
        THEN IF charAt(node.text, 0) = "."
             THEN << " require('" \o rewrittenPath(sourceModuleId, node.text) \o "')" >>
             ELSE <<>>
        ELSE IF node.kind = "DeclareKeyword" THEN << "" >>
        ELSE IF /\ node.kind = "StringLiteral"
                /\ node.parentKind \in {"ExportDeclaration", "ImportDeclaration"}
        THEN IF charAt(node.text, 0) = "."
             THEN << " '" \o rewrittenPath(sourceModuleId, node.text) \o "'" >>
             ELSE <<>>
        ELSE <<>>]

\* the raw branch gone wrong: the text is indented like a module body
rawBlockMutantIndented(declarationFile, o) ==
    << [part |-> "raw", text |-> indentLines(declarationFile.text, o.eol, o.indent)] >>

\* writeDeclaration, no externalModuleIndicator: output.write(declarationFile.text)
rawBlock(declarationFile, o) == << [part |-> "raw", text |-> declarationFile.text] >>

\* the module branch gone wrong: the block is closed before its body is written
moduleBlockMutantCloseFirst(declarationFile, o) ==
    LET sourceModuleId == sourceModuleIdOf(declarationFile.fileName, o)
    IN << [part |-> "open",
           text |-> "declare module '" \o sourceModuleId \o "' {" \o o.eol \o o.indent],
          [part |-> "close", text |-> o.eol \o "}" \o o.eol],
          [part |-> "body", text |-> declarationFile.text] >>

\* writeDeclaration, externalModuleIndicator set: the three writes of a module block
moduleBlock(declarationFile, o) ==
    LET sourceModuleId == sourceModuleIdOf(declarationFile.fileName, o)
        content == processTree(declarationFile, replacerOf(declarationFile, sourceModuleId))
    IN << [part |-> "open",
           text |-> "declare module '" \o sourceModuleId \o "' {" \o o.eol \o o.indent],
          [part |-> "body", text |-> indentLines(content, o.eol, o.indent)],
          [part |-> "close", text |-> o.eol \o "}" \o o.eol] >>

\* function writeDeclaration(declarationFile): the writes it queues
writeDeclaration(declarationFile, o) ==
    IF declarationFile.externalModuleIndicator
    THEN moduleBlock(declarationFile, o)
    ELSE rawBlock(declarationFile, o)

\* function writeFile(filename, data, writeByteOrderMark): the writes it queues
writeFile(filename, data, o) ==
    IF sliceFrom(filename, -5) # ".d.ts" THEN <<>>
    ELSE writeDeclaration(createSourceFile(filename, data), o)

\* program.emit(sourceFile, writeFile): the emitter hands writeFile the .js text
\* and the .d.ts text of the file, unless it writes nothing
emit(sourceFile, outcome, o) ==
    LET stem == slice(sourceFile.fileName, 0, -3)
    IN IF outcome.written
       THEN writeFile(stem \o ".js", "", o)
            \o writeFile(stem \o ".d.ts", sourceFile.declaration, o)
       ELSE <<>>

\* the failure test gone wrong: reported diagnostics are not looked at
emitFailedMutantSkippedOnly(emitOutput) == emitOutput.emitSkipped

\* emitOutput.emitSkipped || emitOutput.diagnostics.length > 0
emitFailed(emitOutput) == emitOutput.emitSkipped \/ emitOutput.diagnostics > 0

\* the first test of the some() callback: not under baseDir
isForeign(sourceFile, o) == ~indexOfIsZero(normalize(sourceFile.fileName), baseDirOf(o))

\* the second test of the some() callback: excludesMap[sourceFile.fileName]
isExcluded(sourceFile, o) == sourceFile.fileName \in excludesMap(o)

\* options.externs.forEach(...): the pragma lines written
externWrites(o) ==
    [i \in DOMAIN o.externs |-> "/// <reference path=\"" \o o.externs[i] \o "\" />" \o o.eol]

\* the alias block gone wrong: the main path is joined to the namespace name
aliasWritesMutantQualified(o) ==
    << "declare module '" \o o.name \o "' {" \o o.eol \o o.indent,
       "import main = require('" \o join(o.name, o.main) \o "');" \o o.eol \o o.indent,
       "export = main;" \o o.eol,
       "}" \o o.eol >>

\* if (options.main) { ... }: the four writes of the alias block
aliasWrites(o) ==
    << "declare module '" \o o.name \o "' {" \o o.eol \o o.indent,
       "import main = require('" \o o.main \o "');" \o o.eol \o o.indent,
       "export = main;" \o o.eol,
       "}" \o o.eol >>

\* resolve(undefined) / reject(error) of the promise: the first settlement stands
settle(p, outcome) == IF p = "pending" THEN outcome ELSE p

(***************************************************************************)
(* The run of generate                                                     *)
(***************************************************************************)
MaxFiles == 3

\* the file arguments a caller may list in options.files
FileArgs == {"a.ts", "a.d.ts", "g.d.ts", "s/c.ts", "../bx/e.ts"}

FileLists ==
    UNION { { f \in [1..n -> FileArgs] : \A i, j \in 1..n : i # j => f[i] # f[j] }
            : n \in 0..MaxFiles }

Options ==
    { [baseDir |-> "/b", name |-> "pkg", eol |-> "\n", indent |-> "\t",
       files |-> fs, excludes |-> ex, externs |-> xs, main |-> m]
      : fs \in FileLists,
        ex \in {<<>>, <<"a.ts">>},
        xs \in {<<>>, <<"x.d.ts", "y.d.ts">>},
        m \in {"", "./a"} }

TreeIdle == tTree = <<>> /\ tResult = <<>>

Init ==
    /\ opts \in Options
    /\ sourceFiles = getSourceFiles(opts)
    /\ pc = "externs"
    /\ idx = 1
    /\ log = <<>>
    /\ messages = <<>>
    /\ stream = [ended |-> 0, closed |-> FALSE, errored |-> FALSE]
    /\ promise = "pending"
    /\ hist = [fatal |-> FALSE, logAtFatal |-> 0, logAtEnd |-> 0, settles |-> 0,
               emitted |-> {}]
    /\ TreeIdle

\* ghost tags of a write: which source file (0: none) and which part of its block
Tagged(writes, file) ==
    [i \in DOMAIN writes |-> [text |-> writes[i].text, part |-> writes[i].part, file |-> file]]

\* if (options.externs) options.externs.forEach(...)
WriteExterns ==
    /\ pc = "externs"
    /\ log' = log \o [i \in DOMAIN opts.externs |->
                        [text |-> externWrites(opts)[i], part |-> "pragma", file |-> 0]]
    /\ messages' = messages \o [i \in DOMAIN opts.externs |->
                                  "Writing external dependency " \o opts.externs[i]]
    /\ pc' = "files"
    /\ UNCHANGED <<opts, sourceFiles, idx, stream, promise, hist, treeVars>>

\* one call of the callback of program.getSourceFiles().some(...)
VisitSourceFile ==
    /\ pc = "files"
    /\ LET sourceFile == sourceFiles[idx]
           next == IF idx = Len(sourceFiles) THEN "alias" ELSE "files"
       IN \/ /\ isForeign(sourceFile, opts) \/ isExcluded(sourceFile, opts)
             /\ pc' = next /\ idx' = idx + 1
             /\ UNCHANGED <<log, messages, promise, hist>>
          \/ /\ ~isForeign(sourceFile, opts) /\ ~isExcluded(sourceFile, opts)
             /\ sliceFrom(sourceFile.fileName, -5) = ".d.ts"
             /\ messages' = Append(messages, "Processing " \o sourceFile.fileName)
             /\ log' = log \o Tagged(writeDeclaration(sourceFile, opts), idx)
             /\ pc' = next /\ idx' = idx + 1
             /\ UNCHANGED <<promise, hist>>
          \/ /\ ~isForeign(sourceFile, opts) /\ ~isExcluded(sourceFile, opts)
             /\ sliceFrom(sourceFile.fileName, -5) # ".d.ts"
             /\ messages' = Append(messages, "Processing " \o sourceFile.fileName)
             /\ \E emitOutput \in EmitOutcomes :
                  LET reported == emitOutput.emitSkipped \/ emitOutput.diagnostics > 0
                  IN /\ log' = log \o Tagged(emit(sourceFile, emitOutput, opts), idx)
                     /\ IF emitFailed(emitOutput)
                        THEN /\ promise' = settle(promise, "rejected")
                             /\ pc' = "alias" /\ idx' = idx
                        ELSE /\ promise' = promise
                             /\ pc' = next /\ idx' = idx + 1
                     /\ hist' = [hist EXCEPT
                                   !.emitted = @ \cup {idx},
                                   !.fatal = @ \/ reported,
                                   !.logAtFatal = IF reported THEN Len(log') ELSE @,
                                   !.settles = IF promise' # promise THEN @ + 1 ELSE @]
    /\ UNCHANGED <<opts, sourceFiles, stream, treeVars>>

\* if (options.main) { ... }
WriteAlias ==
    /\ pc = "alias"
    /\ IF opts.main # ""
       THEN /\ log' = log \o [i \in 1..4 |->
                                [text |-> aliasWrites(opts)[i], part |-> "alias", file |-> 0]]
            /\ messages' = Append(messages, "Aliased main module " \o opts.name
                                            \o " to " \o opts.main)
       ELSE UNCHANGED <<log, messages>>
    /\ pc' = "end"
    /\ UNCHANGED <<opts, sourceFiles, idx, stream, promise, hist, treeVars>>

\* output.end(), the executor's last statement
EndStream ==
    /\ pc = "end"
    /\ stream' = [stream EXCEPT !.ended = @ + 1]
    /\ hist' = [hist EXCEPT !.logAtEnd = Len(log)]
    /\ pc' = "returned"
    /\ UNCHANGED <<opts, sourceFiles, idx, log, messages, promise, treeVars>>

\* output.on('error', reject): the stream fails while it is open; events are
\* delivered only once the executor has returned
StreamError ==
    /\ pc = "returned"
    /\ ~stream.closed /\ ~stream.errored
    /\ stream' = [stream EXCEPT !.errored = TRUE]
    /\ promise' = settle(promise, "rejected")
    /\ hist' = [hist EXCEPT !.settles = IF promise' # promise THEN @ + 1 ELSE @]
    /\ UNCHANGED <<opts, sourceFiles, pc, idx, log, messages, treeVars>>

\* output.on('close', () => { resolve(undefined); }): the stream's last event,
\* after end() has flushed or after a failure destroyed the stream
StreamClose ==
    /\ pc = "returned"
    /\ ~stream.closed
    /\ stream.ended > 0 \/ stream.errored
    /\ stream' = [stream EXCEPT !.closed = TRUE]
    /\ promise' = settle(promise, "fulfilled")
    /\ hist' = [hist EXCEPT !.settles = IF promise' # promise THEN @ + 1 ELSE @]
    /\ UNCHANGED <<opts, sourceFiles, pc, idx, log, messages, treeVars>>

Next ==
    \/ WriteExterns
    \/ VisitSourceFile
    \/ WriteAlias
    \/ EndStream
    \/ StreamError
    \/ StreamClose

Spec == Init /\ [][Next]_vars

(***************************************************************************)
(* Notions the properties are stated in                                    *)
(***************************************************************************)
\* the writes queued for source file k, in order
BlockOf(k) == LET ofFile(e) == e.file = k IN SelectSeq(log, ofFile)
Parts(block) == [i \in DOMAIN block |-> block[i].part]
Texts(block) == [i \in DOMAIN block |-> block[i].text]

IsDeclarationFile(fileName) ==
    Len(fileName) >= 5 /\ SubSeq(fileName, Len(fileName) - 4, Len(fileName)) = ".d.ts"

\* the file lies inside the base directory
InsideBase(fileName) == indexOfIsZero(fileName, resolve(opts.baseDir) \o "/")

\* the file is one of the configured exclusions
Excluded(fileName) ==
    \E i \in DOMAIN opts.excludes :
        resolve2(resolve(opts.baseDir), opts.excludes[i]) = fileName

Qualifies(fileName) == InsideBase(fileName) /\ ~Excluded(fileName)

\* the some() callback has returned for source file k without a fatal diagnostic
Passed(k) == k \in DOMAIN sourceFiles /\ k < idx

\* the members of a finite set of numbers, ascending
Ascending(S) ==
    [i \in 1..Cardinality(S) |-> CHOOSE x \in S : Cardinality({y \in S : y < x}) = i - 1]

\* the texts between the 1st and 2nd, 3rd and 4th, ... single quote of s
Quoted(s) ==
    LET q == Ascending(occurrences(s, "'", 0))
    IN [i \in 1..(Len(q) \div 2) |-> slice(s, q[2 * i - 1] + 1, q[2 * i])]

\* the string literals of a tree, in document order
RECURSIVE Literals(_)
Literals(node) ==
    LET RECURSIVE each(_)
        each(kids) == IF kids = <<>> THEN <<>> ELSE Literals(Head(kids)) \o each(Tail(kids))
    IN (IF node.kind = "StringLiteral" THEN <<node>> ELSE <<>>) \o each(node.kids)

\* a literal that names another module
IsReference(literal) ==
    literal.parentKind \in {"ExternalModuleReference", "ExportDeclaration", "ImportDeclaration"}

\* a path's segments resolved left to right: '.' stays, '..' leaves a directory
RECURSIVE Climb(_, _)
Climb(segments, stack) ==
    IF segments = <<>> THEN stack
    ELSE LET seg == Head(segments)
         IN Climb(Tail(segments),
                  IF seg \in {".", ""} THEN stack
                  ELSE IF seg = ".." /\ stack # <<>> /\ stack[Len(stack)] # ".."
                       THEN SubSeq(stack, 1, Len(stack) - 1)
                  ELSE Append(stack, seg))

\* the identifier a relative path names from inside module moduleId
TargetOf(moduleId, relative) ==
    LET own == split(moduleId, "/")
    IN joinWith(Climb(SubSeq(own, 1, Len(own) - 1) \o split(relative, "/"), <<>>), "/")

\* the parsed declaration a block of source file k is written from
DeclarationOf(k) ==
    IF IsDeclarationFile(sourceFiles[k].fileName) THEN sourceFiles[k]
    ELSE createSourceFile(slice(sourceFiles[k].fileName, 0, -3) \o ".d.ts",
                          sourceFiles[k].declaration)

IsModuleBlock(block) == Parts(block) = <<"open", "body", "close">>

AliasEntries == LET isAlias(e) == e.part = "alias" IN SelectSeq(log, isAlias)

(***************************************************************************)
(* C1                                                                      *)
(***************************************************************************)
\* C1 as stated: every qualifying '.d.ts' input is written as exactly its raw
\* text, one write, whatever it contains
C1_FinishedDeclarationCopiedRaw ==
    \A k \in DOMAIN sourceFiles :
        (Passed(k) /\ IsDeclarationFile(sourceFiles[k].fileName)
                   /\ Qualifies(sourceFiles[k].fileName))
        => Texts(BlockOf(k)) = <<sourceFiles[k].text>>

\* C1 amended: a qualifying '.d.ts' input is never handed to the emitter; it is
\* written as exactly its raw text when it carries no external module indicator,
\* and as a 'declare module' block, like an emitted declaration, when it does
C1_FinishedDeclarationRawUnlessModule ==
    \A k \in DOMAIN sourceFiles :
        (Passed(k) /\ IsDeclarationFile(sourceFiles[k].fileName)
                   /\ Qualifies(sourceFiles[k].fileName))
        => /\ k \notin hist.emitted
           /\ IF sourceFiles[k].externalModuleIndicator
              THEN /\ IsModuleBlock(BlockOf(k))
                   /\ indexOfIsZero(BlockOf(k)[1].text, "declare module '")
                   /\ BlockOf(k)[3].text = opts.eol \o "}" \o opts.eol
              ELSE Texts(BlockOf(k)) = <<sourceFiles[k].text>>

C1_Witness ==
    \E k, m \in DOMAIN sourceFiles :
        /\ Passed(k) /\ Passed(m)
        /\ IsDeclarationFile(sourceFiles[k].fileName) /\ Qualifies(sourceFiles[k].fileName)
        /\ IsDeclarationFile(sourceFiles[m].fileName) /\ Qualifies(sourceFiles[m].fileName)
        /\ ~sourceFiles[k].externalModuleIndicator
        /\ Texts(BlockOf(k)) = <<sourceFiles[k].text>>
        /\ sourceFiles[m].externalModuleIndicator
        /\ IsModuleBlock(BlockOf(m))

(***************************************************************************)
(* C2                                                                      *)
(***************************************************************************)
\* C2 as stated: for main = './a' and namespace 'pkg' the alias block requires
\* the namespace-qualified identifier 'pkg/a'
C2_AliasRequiresQualifiedId ==
    (pc \in {"end", "returned"} /\ opts.main = "./a" /\ opts.name = "pkg")
    => /\ Len(AliasEntries) = 4
       /\ AliasEntries[2].text = "import main = require('pkg/a');" \o opts.eol \o opts.indent

\* C2 amended: the alias block, written after all file blocks, requires the
\* configured main path verbatim
C2_AliasRequiresMainVerbatim ==
    (pc \in {"end", "returned"} /\ opts.main # "")
    => /\ Len(log) >= 4
       /\ AliasEntries = SubSeq(log, Len(log) - 3, Len(log))
       /\ Texts(AliasEntries) =
            << "declare module '" \o opts.name \o "' {" \o opts.eol \o opts.indent,
               "import main = require('" \o opts.main \o "');" \o opts.eol \o opts.indent,
               "export = main;" \o opts.eol,
               "}" \o opts.eol >>

C2_Witness ==
    /\ pc = "returned" /\ opts.main = "./a" /\ opts.name = "pkg"
    /\ Len(AliasEntries) = 4
    /\ \E i \in DOMAIN log : log[i].part = "close"

(***************************************************************************)
(* C3                                                                      *)
(***************************************************************************)
\* C3 as stated: once the compiler has reported a diagnostic or a skipped
\* emission, no further write is queued in the run
C3_NoWriteAfterFatal == hist.fatal => Len(log) = hist.logAtFatal

(***************************************************************************)
(* C4                                                                      *)
(***************************************************************************)
\* C4 as stated: the stream is ended exactly once in a run without a fatal
\* diagnostic and never in a run with one
C4_EndedOnlyOnSuccess ==
    /\ stream.ended <= 1
    /\ (pc = "returned" /\ ~hist.fatal) => stream.ended = 1
    /\ hist.fatal => stream.ended = 0

(***************************************************************************)
(* C5                                                                      *)
(***************************************************************************)
\* C5: the promise settles at most once; it is fulfilled only after 'close' in
\* a run with no fatal diagnostic and no stream error; after a fatal diagnostic
\* or a stream error it is rejected, whatever notification arrives later
C5_PromiseMatchesRun ==
    /\ hist.settles <= 1
    /\ (promise = "pending") = (hist.settles = 0)
    /\ promise = "fulfilled" => (stream.closed /\ ~hist.fatal /\ ~stream.errored)
    /\ (hist.fatal \/ stream.errored) => promise = "rejected"

C5_Witness ==
    /\ hist.fatal /\ stream.errored /\ stream.closed
    /\ promise = "rejected"

(***************************************************************************)
(* C6                                                                      *)
(***************************************************************************)
\* C6: the writes are the reference pragmas in list order, then the file
\* blocks in enumeration order, each module block's open, body and close
\* together, then the alias block; end() follows the last write
C6_WriteOrder ==
    LET n == Len(opts.externs)
        Phase(e) == IF e.part = "pragma" THEN 1 ELSE IF e.part = "alias" THEN 3 ELSE 2
    IN /\ pc # "externs" =>
            /\ Len(log) >= n
            /\ \A i \in 1..n :
                 log[i] = [text |-> "/// <reference path=\"" \o opts.externs[i] \o "\" />"
                                    \o opts.eol,
                           part |-> "pragma", file |-> 0]
       /\ \A i \in DOMAIN log : log[i].part = "pragma" => i <= n
       /\ \A i, j \in DOMAIN log :
            i < j => /\ Phase(log[i]) <= Phase(log[j])
                     /\ (Phase(log[i]) = 2 /\ Phase(log[j]) = 2) => log[i].file <= log[j].file
       /\ \A k \in DOMAIN sourceFiles :
            /\ Parts(BlockOf(k)) \in {<<>>, <<"raw">>, <<"open", "body", "close">>}
            /\ (Passed(k) /\ Qualifies(sourceFiles[k].fileName)) => BlockOf(k) # <<>>
       /\ pc \in {"end", "returned"} =>
            Len(AliasEntries) = (IF opts.main # "" THEN 4 ELSE 0)
       /\ pc \notin {"end", "returned"} => AliasEntries = <<>>
       /\ stream.ended > 0 =>
            (stream.ended = 1 /\ pc = "returned" /\ Len(log) = hist.logAtEnd)

C6_Witness ==
    /\ pc = "returned" /\ stream.ended = 1
    /\ Len(opts.externs) = 2 /\ Len(AliasEntries) = 4
    /\ \E k, m \in DOMAIN sourceFiles :
         k < m /\ IsModuleBlock(BlockOf(k)) /\ Parts(BlockOf(m)) = <<"raw">>
    /\ \E k, m \in DOMAIN sourceFiles :
         k < m /\ IsModuleBlock(BlockOf(k)) /\ IsModuleBlock(BlockOf(m))

(***************************************************************************)
(* C7                                                                      *)
(***************************************************************************)
\* C7 as stated: writes and 'Processing' messages are issued only for files
\* inside the base directory that are not excluded
C7_OnlyQualifyingFilesWritten ==
    /\ \A i \in DOMAIN log :
         log[i].file > 0 => Qualifies(sourceFiles[log[i].file].fileName)
    /\ \A k \in DOMAIN sourceFiles :
         ~Qualifies(sourceFiles[k].fileName) =>
            \A i \in DOMAIN messages : messages[i] # "Processing " \o sourceFiles[k].fileName

RECURSIVE Replaced(_)
Replaced(node) ==
    LET RECURSIVE each(_)
        each(kids) == IF kids = <<>> THEN <<>> ELSE Replaced(Head(kids)) \o each(Tail(kids))
    IN IF node.answer # <<>> THEN <<node>> ELSE each(node.kids)

\* the text from position from on, with the spans of the nodes replaced
RECURSIVE Spliced(_, _, _)
Spliced(text, from, nodes) ==
    IF nodes = <<>> THEN SubSeq(text, from + 1, Len(text))
    ELSE SubSeq(text, from + 1, Head(nodes).pos) \o Head(nodes).answer[1]
         \o Spliced(text, Head(nodes).end, Tail(nodes))

\* the nodes outside every replaced node, and the replaced nodes, in document order
RECURSIVE Reached(_)
Reached(node) ==
    LET RECURSIVE each(_)
        each(kids) == IF kids = <<>> THEN <<>> ELSE Reached(Head(kids)) \o each(Tail(kids))
    IN <<node.id>> \o (IF node.answer # <<>> THEN <<>> ELSE each(node.kids))

\* C9: processTree returns the source text with exactly the span of each node
\* the replacer answered for replaced and everything else copied once, in
\* order; no node is visited twice and none inside a replaced node; a replacer
\* that never answers gives the source text back
C9_ProcessTreeSplices ==
    tResult # <<>> =>
        /\ tResult[1].code = Spliced(tTree.text, 0, Replaced(tTree))
        /\ tResult[1].visited = Reached(tTree)
        /\ \A i, j \in DOMAIN tResult[1].visited :
             i # j => tResult[1].visited[i] # tResult[1].visited[j]
        /\ (\A node \in NodesOf(tTree) : node.answer = <<>>) => tResult[1].code = tTree.text

C9_Witness ==
    /\ tResult # <<>>
    /\ Len(Replaced(tTree)) = 2
    /\ Replaced(tTree)[1].kids # <<>>
    /\ Replaced(tTree)[1].pos > 0
    /\ Replaced(tTree)[1].end > Replaced(tTree)[1].pos
    /\ tResult[1].code = "a##"

(***************************************************************************)
(* C10                                                                     *)
(***************************************************************************)
\* C10 as stated: no two source files get 'declare module' blocks with the
\* same identifier
C10_ModuleIdsUnique ==
    \A i, j \in DOMAIN log :
        (log[i].part = "open" /\ log[j].part = "open" /\ log[i].file # log[j].file)
        => log[i].text # log[j].text

====
